---- MODULE Spec2Model ----
(***************************************************************************)
(* Model of utils/kg_dictionary.py: the batch uploader that replays an    *)
(* authenticated session against klavogonki.ru and creates one dictionary *)
(* per input file.                                                         *)
(*                                                                         *)
(* A text (Python str) is a sequence of characters.  A character is a     *)
(* one-character string for ASCII and the name of its code point          *)
(* ("U+0414") otherwise.  A byte string (Python bytes) is a sequence of   *)
(* bytes: an ASCII byte is written as its character, any other byte by    *)
(* its hexadecimal name ("xD0").                                           *)
(***************************************************************************)
EXTENDS Integers, Sequences, FiniteSets, TLC

VARIABLES
    argv,        \* the command line: per -f path whether it exists, the -c file
    pc,          \* where the program is
    status,      \* "running", or how the process ended
    idx,         \* position in args.files of the file being processed
    net,         \* the HTTP requests the session issued, oldest first
    logged,      \* the records written with log.error and log.info
    raw,         \* what fp.read() returned for the dictionary file
    desc,        \* the descriptor file get_metadata read, and for which file
    words,       \* the text prepare_as_text returned
    form_data,   \* the fields create_post_data returned
    prep_rq,     \* the PreparedRequest: body and Content-Length header
    resp_text,   \* resp.text of the POST
    result       \* what the error scrape made of resp.text

vars == <<argv, pc, status, idx, net, logged, raw, desc, words, form_data,
          prep_rq, resp_text, result>>

(***************************************************************************)
(* Bounds of the checked instances.                                        *)
(***************************************************************************)
MaxFiles == 3          \* -f paths on the command line
MaxTextLen == 3        \* characters of a dictionary file (text rule alone)
MaxBodyPieces == 3     \* fragments a dictionary file is made of (request body)
MaxRespPieces == 4     \* fragments a response body is made of

(***************************************************************************)
(* Texts.                                                                  *)
(***************************************************************************)
Chars(s) == [i \in 1..Len(s) |-> SubSeq(s, i, i)]

Min(S) == CHOOSE x \in S : \A y \in S : x <= y

Max(S) == CHOOSE x \in S : \A y \in S : x >= y

\* text s carries the literal lit at position i
StartsWith(s, i, lit) ==
    /\ i >= 1
    /\ i + Len(lit) - 1 <= Len(s)
    /\ \A k \in 1..Len(lit) : s[i + k - 1] = lit[k]

\* first position at or after j whose character is outside class, or
\* Len(s) + 1: where a greedy run of class characters starting at j stops
RunEnd(s, j, class) ==
    LET stops == {p \in j..Len(s) : s[p] \notin class}
    IN  IF stops = {} THEN Len(s) + 1 ELSE Min(stops)

\* str.isspace() characters of the modelled alphabet
Whitespace == {" ", "\t", "\n", "\r", "\f"}

\* str.strip()
strip(s) ==
    LET keep == {p \in 1..Len(s) : s[p] \notin Whitespace}
    IN  IF keep = {} THEN <<>> ELSE SubSeq(s, Min(keep), Max(keep))

\* str.endswith
endswith(s, suffix) ==
    /\ Len(suffix) <= Len(s)
    /\ SubSeq(s, Len(s) - Len(suffix) + 1, Len(s)) = suffix

(***************************************************************************)
(* UTF-8, for the characters the program handles outside ASCII: the        *)
(* letters of the submit button's caption.                                 *)
(***************************************************************************)
Utf8Table ==
    { <<"U+0414", <<"xD0", "x94">> >>, <<"U+043E", <<"xD0", "xBE">> >>,
      <<"U+0431", <<"xD0", "xB1">> >>, <<"U+0430", <<"xD0", "xB0">> >>,
      <<"U+0432", <<"xD0", "xB2">> >>, <<"U+0438", <<"xD0", "xB8">> >>,
      <<"U+0442", <<"xD1", "x82">> >>, <<"U+044C", <<"xD1", "x8C">> >> }

LeadBytes == {e[2][1] : e \in Utf8Table}

ContinuationBytes == {e[2][2] : e \in Utf8Table}

EncodeChar(c) ==
    IF Len(c) = 1 THEN <<c>> ELSE (CHOOSE e \in Utf8Table : e[1] = c)[2]

\* str.encode() of the characters lo..hi of text
RECURSIVE EncodeRange(_, _, _)
EncodeRange(text, lo, hi) ==
    IF lo > hi THEN <<>>
    ELSE IF lo = hi THEN EncodeChar(text[lo])
    ELSE LET mid == (lo + hi) \div 2
         IN  EncodeRange(text, lo, mid) \o EncodeRange(text, mid + 1, hi)

encode(text) == EncodeRange(text, 1, Len(text))

\* bytes.decode() of the characters that start in lo..hi of data
RECURSIVE DecodeRange(_, _, _)
DecodeRange(data, lo, hi) ==
    IF lo > hi THEN <<>>
    ELSE IF lo = hi
         THEN IF data[lo] \in ContinuationBytes THEN <<>>
              ELSE IF data[lo] \in LeadBytes
                   THEN << (CHOOSE e \in Utf8Table :
                               e[2] = <<data[lo], data[lo + 1]>>)[1] >>
                   ELSE <<data[lo]>>
    ELSE LET mid == (lo + hi) \div 2
         IN  DecodeRange(data, lo, mid) \o DecodeRange(data, mid + 1, hi)

decode(data) == DecodeRange(data, 1, Len(data))

(***************************************************************************)
(* check_csrf_token: re.search("name='csrftoken' value='([^']+)'", page)   *)
(***************************************************************************)
CsrfPrefix == Chars("name='csrftoken' value='")

\* the pattern matches at position i: the prefix, a greedy run of one or
\* more characters other than the quote, and the closing quote
CsrfMatchAt(s, i) ==
    /\ StartsWith(s, i, CsrfPrefix)
    /\ LET j == i + Len(CsrfPrefix)
           quotes == {p \in j..Len(s) : s[p] = "'"}
       IN  quotes /= {} /\ Min(quotes) > j

check_csrf_token_any_value(page_text) ==
    \E i \in 1..Len(page_text) :
        /\ StartsWith(page_text, i, CsrfPrefix)
        /\ \E p \in (i + Len(CsrfPrefix))..Len(page_text) : page_text[p] = "'"

check_csrf_token(page_text) ==
    \E i \in 1..Len(page_text) : CsrfMatchAt(page_text, i)

(***************************************************************************)
(* create_post_data and its helpers.                                       *)
(***************************************************************************)
\* load_text: fp.read().strip()
load_text(file_content) == strip(file_content)

prepare_as_text_always(text) == text \o Chars(".")

\* prepare_as_text: append a dot unless the text ends with one
prepare_as_text(text) ==
    IF endswith(text, Chars(".")) THEN text ELSE text \o Chars(".")

get_metadata_default(cfg, file_name) ==
    IF ~cfg.parses
    THEN [end |-> "raise", metadata |-> <<>>]
    ELSE IF file_name \notin DOMAIN cfg.sections
    THEN [end |-> "return",
          metadata |-> [name |-> <<>>, description |-> <<>>]]
    ELSE [end |-> "return", metadata |-> cfg.sections[file_name]]

\* the descriptor file as ConfigParser sees it: whether it parses, and its
\* sections (a missing file reads as no section at all); the result of
\* get_metadata is how the call ended and the section it returned
get_metadata(cfg, file_name) ==
    IF ~cfg.parses
    THEN [end |-> "raise", metadata |-> <<>>]      \* configparser.Error
    ELSE IF file_name \notin DOMAIN cfg.sections
    THEN [end |-> "exit", metadata |-> <<>>]       \* KeyError: exit(...)
    ELSE [end |-> "return", metadata |-> cfg.sections[file_name]]

Submit ==
    <<"U+0414", "U+043E", "U+0431", "U+0430", "U+0432", "U+0438", "U+0442",
      "U+044C">>

\* the keys of the dict form_fields returns, in insertion order
FieldOrder ==
    <<"name", "description", "public", "type", "words", "info", "url",
      "submit">>

\* form_fields raises KeyError when the section lacks one of its two keys
form_fields_raises(metadata) ==
    ~({"name", "description"} \subseteq DOMAIN metadata)

form_fields(content, metadata) ==
    [name        |-> metadata["name"],
     description |-> metadata["description"],
     public      |-> Chars("public"),
     type        |-> Chars("texts"),
     words       |-> prepare_as_text(content),
     info        |-> <<>>,
     url         |-> <<>>,
     submit      |-> Submit]

(***************************************************************************)
(* requests.Request('POST', url, files=form_data) as session.prepare_      *)
(* request encodes it: every field becomes a part whose Content-           *)
(* Disposition carries filename="<field name>".                            *)
(***************************************************************************)
\* the encoder picks 32 random hexadecimal digits; one choice stands for all
Boundary == Chars("0123456789abcdef0123456789abcdef")

CRLF == <<"\r", "\n">>

PartHeader(k) ==
    Chars("Content-Disposition: form-data; name=\"") \o Chars(k)
        \o Chars("\"; filename=\"") \o Chars(k) \o Chars("\"")

RECURSIVE EncodeParts(_, _)
EncodeParts(fields, n) ==
    IF n > Len(FieldOrder) THEN Chars("--") \o Boundary \o Chars("--") \o CRLF
    ELSE Chars("--") \o Boundary \o CRLF
             \o PartHeader(FieldOrder[n]) \o CRLF \o CRLF
             \o fields[FieldOrder[n]] \o CRLF
             \o EncodeParts(fields, n + 1)

prepare_request(fields) ==
    LET body == encode(EncodeParts(fields, 1))
    IN  [body |-> body, content_length |-> Len(body)]

(***************************************************************************)
(* strip_filename_headers: re.sub('filename="([a-z]+)"', '', body)         *)
(***************************************************************************)
FilenamePrefix == Chars("filename=\"")

LowerCase == {Chars("abcdefghijklmnopqrstuvwxyz")[i] : i \in 1..26}

\* position of the closing quote of the match that starts at i, 0 if the
\* pattern does not match there
FilenameMatchEnd(s, i) ==
    IF ~StartsWith(s, i, FilenamePrefix) THEN 0
    ELSE LET j == i + Len(FilenamePrefix)
             e == RunEnd(s, j, LowerCase)
         IN  IF e > j /\ e <= Len(s) /\ s[e] = "\"" THEN e ELSE 0

\* re.sub from position from on, matches being the positions of s where
\* the pattern matches: the leftmost match at or after from is dropped and
\* the scan resumes behind it
RECURSIVE SubFilename(_, _, _)
SubFilename(s, matches, from) ==
    LET ms == {i \in matches : i >= from}
    IN  IF ms = {} THEN SubSeq(s, from, Len(s))
        ELSE SubSeq(s, from, Min(ms) - 1)
                 \o SubFilename(s, matches, FilenameMatchEnd(s, Min(ms)) + 1)

re_sub_filename(s) ==
    SubFilename(s, {i \in 1..Len(s) : FilenameMatchEnd(s, i) /= 0}, 1)

strip_filename_headers_stale_length(rq) ==
    LET replaced == re_sub_filename(decode(rq.body))
        body == encode(replaced)
    IN  [body |-> body, content_length |-> rq.content_length]

strip_filename_headers(rq) ==
    LET replaced == re_sub_filename(decode(rq.body))
        body == encode(replaced)
    IN  [body |-> body, content_length |-> Len(body)]

(***************************************************************************)
(* The scrape of the response: re.search('class=error>(.+)</div>', text)   *)
(***************************************************************************)
ErrorOpen == Chars("class=error>")

ErrorClose == Chars("</div>")

\* the ends group 1 can have in a match that starts at i: one or more
\* characters other than the newline, followed by the closing tag
ErrorGroupEnds(s, i) ==
    IF ~StartsWith(s, i, ErrorOpen) THEN {}
    ELSE LET j == i + Len(ErrorOpen)
         IN  {e \in j..Len(s) :
                 /\ \A k \in j..e : s[k] /= "\n"
                 /\ StartsWith(s, e + 1, ErrorClose)}

\* the leftmost match, its group taken greedily
find_err(text) ==
    LET starts == {i \in 1..Len(text) : ErrorGroupEnds(text, i) /= {}}
    IN  IF starts = {} THEN [found |-> FALSE, group1 |-> <<>>]
        ELSE LET i == Min(starts)
             IN  [found |-> TRUE,
                  group1 |-> SubSeq(text, i + Len(ErrorOpen),
                                    Max(ErrorGroupEnds(text, i)))]

\* the record upload_dictionary logs for a response
classify(file, text, url, name) ==
    IF find_err(text).found
    THEN [level |-> "error", file |-> file, message |-> find_err(text).group1,
          url |-> <<>>, name |-> <<>>]
    ELSE [level |-> "info", file |-> file, message |-> <<>>,
          url |-> url, name |-> name]

(***************************************************************************)
(* What the program reads: the remote site's answers, the dictionary       *)
(* files and the descriptor files.                                         *)
(***************************************************************************)
VOC_ADD_URL == Chars("http://klavogonki.ru/vocs/add")

Response(text, url) == [failed |-> FALSE, text |-> text, url |-> url]

\* the transport raised instead of returning a response
TransportFailure == [failed |-> TRUE, text |-> <<>>, url |-> <<>>]

Pages ==
    { Chars("<input name='csrftoken' value='ABC123'>"),
      Chars("<input name='csrftoken' value=''>"),
      Chars("<a href='/login'>") }

GetResponses == {TransportFailure} \cup {Response(p, VOC_ADD_URL) : p \in Pages}

PostResponses ==
    { TransportFailure,
      Response(Chars("<h1>ok</h1>"), Chars("http://klavogonki.ru/vocs/1/")),
      Response(Chars("<div class=error>some text</div>"), VOC_ADD_URL) }

FileContents == {Chars("one two\n")}

\* the states descriptions.cfg can be in when get_metadata reads it for a
\* file: unparseable, without the file's section (or absent), with a
\* section that lacks a key, with a complete section
Descriptors(file) ==
    { [file |-> file, parses |-> FALSE, sections |-> <<>>],
      [file |-> file, parses |-> TRUE, sections |-> <<>>],
      [file |-> file, parses |-> TRUE,
       sections |-> (file :> [name |-> Chars("Dict")])],
      [file |-> file, parses |-> TRUE,
       sections |-> (file :> [name |-> Chars("Dict"),
                              description |-> Chars("words")])],
      [file |-> file, parses |-> TRUE,
       sections |-> (file :> [name |-> Chars("filename=\"abc\""),
                              description |-> Chars("words")])] }

Missing == [exists |-> FALSE, content |-> <<>>]

Existing(content) == [exists |-> TRUE, content |-> content]

\* the command lines argparse accepts as far as their shape goes: one or
\* more -f paths and one -c path
CommandLines(contents) ==
    { [files |-> f, cookie_file |-> c] :
        f \in UNION { [1..n -> {Missing} \cup {Existing(t) : t \in contents}] :
                        n \in 1..MaxFiles },
        c \in {"missing", "malformed", "ok"} }

(***************************************************************************)
(* main                                                                    *)
(***************************************************************************)
Get(file, resp) ==
    [method |-> "GET", url |-> VOC_ADD_URL, file |-> file, fields |-> <<>>,
     body |-> <<>>, content_length |-> 0, resp |-> resp]

Post(file, fields, rq, resp) ==
    [method |-> "POST", url |-> VOC_ADD_URL, file |-> file, fields |-> fields,
     body |-> rq.body, content_length |-> rq.content_length, resp |-> resp]

End(how) == pc' = "end" /\ status' = how

\* _get_path raises ArgumentTypeError for a path that does not exist
parse_args_fails(args) ==
    \/ \E i \in DOMAIN args.files : ~args.files[i].exists
    \/ args.cookie_file = "missing"

load_cookies_never_raises(cookie_file) == FALSE

\* MozillaCookieJar.load raises on a file it cannot read as cookies.txt
load_cookies_raises(cookie_file) == cookie_file /= "ok"

ParseArgs ==
    /\ pc = "parse_args"
    /\ IF parse_args_fails(argv) THEN End("usage")
       ELSE pc' = "load_cookies" /\ status' = status
    /\ UNCHANGED <<argv, idx, net, logged, raw, desc, words, form_data, prep_rq,
                   resp_text, result>>

\* session.cookies = load_cookies(...), then the first iteration of the loop
LoadCookies ==
    /\ pc = "load_cookies"
    /\ IF load_cookies_raises(argv.cookie_file)
       THEN End("traceback") /\ idx' = idx
       ELSE pc' = "login" /\ status' = status /\ idx' = 1
    /\ UNCHANGED <<argv, net, logged, raw, desc, words, form_data, prep_rq,
                   resp_text, result>>

CanIHazLogin ==
    /\ pc = "login"
    /\ \E page_add \in GetResponses :
         /\ net' = Append(net, Get(idx, page_add))
         /\ IF page_add.failed THEN End("traceback")
            ELSE IF ~check_csrf_token(page_add.text) THEN End("Login failed")
            ELSE pc' = "upload" /\ status' = status
    /\ UNCHANGED <<argv, idx, logged, raw, desc, words, form_data, prep_rq,
                   resp_text, result>>

NextFileRetrying ==
    IF result'.level = "error"
    THEN idx' = idx /\ pc' = "login" /\ status' = status
    ELSE IF idx < Len(argv.files)
    THEN idx' = idx + 1 /\ pc' = "login" /\ status' = status
    ELSE idx' = idx /\ End("ok")

\* for file_path in args.files: the next iteration, or the end of main
NextFile ==
    IF idx < Len(argv.files)
    THEN idx' = idx + 1 /\ pc' = "login" /\ status' = status
    ELSE idx' = idx /\ End("ok")

InterpretExiting(resp, name) ==
    /\ resp_text' = resp.text
    /\ result' = classify(idx, resp.text, resp.url, name)
    /\ logged' = Append(logged, classify(idx, resp.text, resp.url, name))
    /\ IF find_err(resp.text).found THEN idx' = idx /\ End("Upload failed")
       ELSE NextFile

\* upload_dictionary from the response on
Interpret(resp, name) ==
    /\ resp_text' = resp.text
    /\ result' = classify(idx, resp.text, resp.url, name)
    /\ logged' = Append(logged, classify(idx, resp.text, resp.url, name))
    /\ NextFile

UploadDictionary ==
    /\ pc = "upload"
    /\ \E d \in Descriptors(idx), resp \in PostResponses :
         LET md == get_metadata(d, idx)
         IN  /\ raw' = argv.files[idx].content
             /\ desc' = d
             /\ IF md.end /= "return" \/ form_fields_raises(md.metadata)
                THEN /\ End(IF md.end = "exit" THEN "Cannot load metadata"
                                              ELSE "traceback")
                     /\ UNCHANGED <<idx, net, logged, words, form_data, prep_rq,
                                    resp_text, result>>
                ELSE LET fd == form_fields(load_text(argv.files[idx].content),
                                           md.metadata)
                         rq == strip_filename_headers(prepare_request(fd))
                     IN  /\ words' = fd.words
                         /\ form_data' = fd
                         /\ prep_rq' = rq
                         /\ net' = Append(net, Post(idx, fd, rq, resp))
                         /\ IF resp.failed
                            THEN /\ End("traceback")
                                 /\ UNCHANGED <<idx, logged, resp_text, result>>
                            ELSE Interpret(resp, fd.name)
    /\ UNCHANGED argv

Next == ParseArgs \/ LoadCookies \/ CanIHazLogin \/ UploadDictionary

NoDescriptor == [file |-> 0, parses |-> TRUE, sections |-> <<>>]

NoRequest == [body |-> <<>>, content_length |-> 0]

NoRecord ==
    [level |-> "none", file |-> 0, message |-> <<>>, url |-> <<>>,
     name |-> <<>>]

\* the process before main has done anything
Started ==
    /\ pc = "parse_args"
    /\ status = "running"
    /\ idx = 0
    /\ net = <<>>
    /\ logged = <<>>
    /\ raw = <<>>
    /\ desc = NoDescriptor
    /\ words = <<>>
    /\ form_data = <<>>
    /\ prep_rq = NoRequest
    /\ resp_text = <<>>
    /\ result = NoRecord

Init == argv \in CommandLines(FileContents) /\ Started

Spec == Init /\ [][Next]_vars

(***************************************************************************)
(* The same program on one existing file and a good cookie file, the       *)
(* file's content ranging over all short texts (SpecText) and over         *)
(* contents made of fragments of the filename attribute (SpecBody).        *)
(***************************************************************************)
TextAlphabet == {" ", "\n", "a", "."}

Texts(n) == UNION { [1..k -> TextAlphabet] : k \in 0..n }

RECURSIVE Concats(_, _)
Concats(pieces, n) ==
    IF n = 0 THEN {<<>>}
    ELSE Concats(pieces, n - 1)
             \cup {a \o p : a \in Concats(pieces, n - 1), p \in pieces}

BodyPieces ==
    { Chars("\n"), Chars("abc"), Chars("filename=\""), Chars("abc\""),
      Chars("Z\"") }

OneFile(contents) ==
    { [files |-> <<Existing(t)>>, cookie_file |-> "ok"] : t \in contents }

InitText == argv \in OneFile(Texts(MaxTextLen)) /\ Started

SpecText == InitText /\ [][Next]_vars

InitBody == argv \in OneFile(Concats(BodyPieces, MaxBodyPieces)) /\ Started

SpecBody == InitBody /\ [][Next]_vars

(***************************************************************************)
(* The error scrape on its own, over response bodies made of fragments of  *)
(* the error markup.                                                       *)
(***************************************************************************)
RespPieces ==
    { ErrorOpen, ErrorClose, Chars("some text"), Chars("\n"), Chars("<p>") }

CreatedUrl == Chars("http://klavogonki.ru/vocs/1/")

InitScrape ==
    /\ argv = [files |-> <<Existing(<<>>)>>, cookie_file |-> "ok"]
    /\ pc = "scrape"
    /\ status = "running"
    /\ idx = 1
    /\ net = <<>>
    /\ logged = <<>>
    /\ raw = <<>>
    /\ desc = NoDescriptor
    /\ words = <<>>
    /\ form_data = <<>>
    /\ prep_rq = NoRequest
    /\ resp_text \in Concats(RespPieces, MaxRespPieces)
    /\ result = NoRecord

Scrape ==
    /\ pc = "scrape"
    /\ result' = classify(idx, resp_text, CreatedUrl, Chars("Dict"))
    /\ pc' = "scraped"
    /\ UNCHANGED <<argv, status, idx, net, logged, raw, desc, words, form_data,
                   prep_rq, resp_text>>

SpecScrape == InitScrape /\ [][Scrape]_vars

(***************************************************************************)
(* Properties.                                                             *)
(***************************************************************************)
Files == Len(argv.files)

Requests == 1..Len(net)

\* a page carries name='csrftoken' value='v' with v non-empty and free of
\* quotes, stated without the search
ContainsCsrfToken(page) ==
    \E i \in 1..Len(page), j \in 1..Len(page) :
        /\ StartsWith(page, i, CsrfPrefix)
        /\ j > i + Len(CsrfPrefix)
        /\ page[j] = "'"
        /\ \A k \in (i + Len(CsrfPrefix))..(j - 1) : page[k] /= "'"

\* the value of the first such input of the page
CsrfTokenOf(page) ==
    LET i == Min({p \in 1..Len(page) : CsrfMatchAt(page, p)})
        j == i + Len(CsrfPrefix)
    IN  SubSeq(page, j, Min({p \in j..Len(page) : page[p] = "'"}) - 1)

TokenlessGet(k) ==
    /\ net[k].method = "GET"
    /\ ~net[k].resp.failed
    /\ ~ContainsCsrfToken(net[k].resp.text)

\* C1: when the form page fetched for a file carries no CSRF token, the
\* batch aborts: that GET is the last request ever issued (no POST for the
\* file, no GET and no POST for a later file) and the process has exited
\* with the login failure.
C1_AbortOnMissingToken ==
    \A k \in Requests :
        TokenlessGet(k) =>
            k = Len(net) /\ pc = "end" /\ status = "Login failed"

\* the second of three files met a page without token, after the first
\* file was submitted
C1_Witness ==
    /\ Files = 3
    /\ Len(net) = 3
    /\ TokenlessGet(3)
    /\ net[3].file = 2
    /\ net[2].method = "POST"

\* the descriptor read for a file parsed and has no section for it
MetadataMissing == desc.file >= 1 /\ desc.parses /\ desc.file \notin DOMAIN desc.sections

C3_PostCarriesFreshToken ==
    \A k \in Requests :
        net[k].method = "POST" =>
            /\ "csrftoken" \in DOMAIN net[k].fields
            /\ net[k].fields["csrftoken"] = CsrfTokenOf(net[k - 1].resp.text)

\* C4: requests go out strictly in file order, one GET then one POST per
\* file, none repeated: request 2i-1 is the GET of file i and request 2i
\* its POST, a request is issued only after the one before it has returned,
\* and a batch of n files issues at most 2n requests.
C4_SequentialNoRetry ==
    /\ Len(net) <= 2 * Files
    /\ \A k \in Requests :
           /\ net[k].file = (k + 1) \div 2
           /\ net[k].method = IF k % 2 = 1 THEN "GET" ELSE "POST"
           /\ k < Len(net) => ~net[k].resp.failed

\* three files, each fetched and submitted once, the second one rejected
C4_Witness ==
    /\ Files = 3
    /\ Len(net) = 6
    /\ find_err(net[4].resp.text).found
    /\ status = "ok"

\* C5: when a -f or -c path does not exist or the cookie file does not
\* load, no request is ever issued, and the run ends as a failure.
C5_NoNetworkBeforeStartup ==
    (\/ \E i \in 1..Files : ~argv.files[i].exists
     \/ argv.cookie_file \in {"missing", "malformed"}) =>
        /\ net = <<>>
        /\ pc = "end" => status \in {"usage", "traceback"}

\* all paths exist, the cookie file did not load, the run is over
C5_Witness ==
    /\ \A i \in 1..Files : argv.files[i].exists
    /\ argv.cookie_file = "malformed"
    /\ pc = "end"
    /\ status = "traceback"
    /\ net = <<>>

Rejected(k) ==
    /\ net[k].method = "POST"
    /\ ~net[k].resp.failed
    /\ find_err(net[k].resp.text).found

HasToken(k) == ~net[k].resp.failed /\ check_csrf_token(net[k].resp.text)

\* C6: a rejected POST of file i is logged as an error for file i and does
\* not end the run: the next request is the GET of file i+1, and once that
\* GET has returned a page with a token the program goes on to upload file
\* i+1 (it stops there only for that file's own descriptor); after the last
\* file the run ends normally.
C6_RejectionDoesNotStopBatch ==
    \A k \in Requests :
        Rejected(k) =>
            LET i == net[k].file
            IN  /\ \E l \in 1..Len(logged) :
                       logged[l].level = "error" /\ logged[l].file = i
                /\ i = Files => pc = "end" /\ status = "ok"
                /\ (i < Files /\ k = Len(net)) =>
                       pc = "login" /\ idx = i + 1 /\ status = "running"
                /\ (i < Files /\ k < Len(net)) =>
                       /\ net[k + 1].method = "GET"
                       /\ net[k + 1].file = i + 1
                       /\ (HasToken(k + 1) /\ k + 1 = Len(net)) =>
                              \/ pc = "upload" /\ idx = i + 1
                                     /\ status = "running"
                              \/ pc = "end" /\ desc.file = i + 1
                                     /\ status \in {"Cannot load metadata",
                                                     "traceback"}
                       /\ (HasToken(k + 1) /\ k + 1 < Len(net)) =>
                              /\ net[k + 2].method = "POST"
                              /\ net[k + 2].file = i + 1

\* file 1 was rejected and file 2 was submitted all the same
C6_Witness ==
    /\ Len(net) >= 4
    /\ Rejected(2)
    /\ net[4].method = "POST"
    /\ net[4].file = 2

\* positions where an error div with a non-empty one-line text starts, and
\* the text of the first of them: what lies between the opening fragment
\* and the first closing tag behind it
MarkerStarts(body) ==
    {i \in 1..Len(body) :
        /\ StartsWith(body, i, ErrorOpen)
        /\ \E e \in (i + Len(ErrorOpen) + 1)..Len(body) :
               /\ StartsWith(body, e, ErrorClose)
               /\ \A k \in (i + Len(ErrorOpen))..(e - 1) : body[k] /= "\n"}

InnerText(body) ==
    LET j == Min(MarkerStarts(body)) + Len(ErrorOpen)
    IN  SubSeq(body, j,
               Min({e \in (j + 1)..Len(body) :
                       StartsWith(body, e, ErrorClose)}) - 1)

\* C7 as claimed: a body with an error div is classified Failed(m), m being
\* exactly the inner text of that div whatever follows it, and a body
\* without one is classified Created(url).
C7_ClassifiesByInnerText ==
    pc = "scraped" =>
        IF MarkerStarts(resp_text) /= {}
        THEN result.level = "error" /\ result.message = InnerText(resp_text)
        ELSE result.level = "info" /\ result.url = CreatedUrl

\* t is r without its leading and trailing whitespace, stated without
\* str.strip
IsTrimOf(t, r) ==
    \E i \in 1..(Len(r) + 1), j \in 0..Len(r) :
        /\ t = SubSeq(r, i, j)
        /\ \A p \in 1..(i - 1) : r[p] \in Whitespace
        /\ \A p \in (j + 1)..Len(r) : r[p] \in Whitespace
        /\ t /= <<>> => t[1] \notin Whitespace /\ t[Len(t)] \notin Whitespace

Submitted == Len(net) >= 2 /\ net[Len(net)].method = "POST"

\* C8: the submitted 'words' field is the file's content trimmed, plus one
\* dot exactly when the trimmed content does not end with a dot; it ends
\* with a dot but, unless the content did, not with two; and building the
\* field from the field's own text gives it back unchanged.
C8_TextTerminator ==
    Submitted =>
        LET sent == net[Len(net)].fields["words"]
        IN  /\ \E t \in {SubSeq(raw, i, j) : i \in 1..(Len(raw) + 1),
                                              j \in 0..Len(raw)} :
                   /\ IsTrimOf(t, raw)
                   /\ sent = IF t /= <<>> /\ t[Len(t)] = "."
                             THEN t ELSE Append(t, ".")
            /\ sent = words
            /\ prepare_as_text(load_text(sent)) = sent

\* a content that already ends with a dot, followed by a newline
C8_Witness ==
    /\ Submitted
    /\ raw = <<"a", ".", "\n">>
    /\ words = <<"a", ".">>

(***************************************************************************)
(* The transmitted body as the receiver splits it: parts between boundary  *)
(* delimiters, each a header block, an empty line and the value.           *)
(***************************************************************************)
Delimiter == Chars("--") \o Boundary

Delimiters(text) == {i \in 1..Len(text) : StartsWith(text, i, Delimiter)}

Nth(S, n) == CHOOSE x \in S : Cardinality({y \in S : y < x}) = n - 1

\* the parts of a body, in order
Parts(text) ==
    LET ds == Delimiters(text)
    IN  [n \in 1..(Cardinality(ds) - 1) |->
            LET start == Nth(ds, n) + Len(Delimiter) + Len(CRLF)
                next == Nth(ds, n + 1)
                hend == Min({h \in start..next :
                                StartsWith(text, h, CRLF \o CRLF)})
            IN  [headers |-> SubSeq(text, start, hend - 1),
                 value |-> SubSeq(text, hend + 2 * Len(CRLF),
                                  next - Len(CRLF) - 1)]]

Contains(text, lit) == \E i \in 1..Len(text) : StartsWith(text, i, lit)

\* some filename="..." attribute, whatever stands between the quotes on
\* the line
HasFilenameAttribute(text) ==
    \E i \in 1..Len(text) :
        /\ StartsWith(text, i, FilenamePrefix)
        /\ \E j \in (i + Len(FilenamePrefix))..Len(text) :
               /\ text[j] = "\""
               /\ \A k \in (i + Len(FilenamePrefix))..(j - 1) :
                      text[k] \notin {"\r", "\n"}

\* C9 as claimed: the body sent with a POST contains no filename="..."
\* attribute at all, and the Content-Length sent is its length in bytes.
C9_NoFilenameAnywhere ==
    \A k \in Requests :
        net[k].method = "POST" =>
            /\ ~HasFilenameAttribute(decode(net[k].body))
            /\ net[k].content_length = Len(net[k].body)

\* C9 as amended: the body sent with a POST is the normalized one, no part
\* header in it carries a filename attribute any more (each is the
\* Content-Disposition with the field's name alone), and the Content-Length
\* sent is the length in bytes of that body.
C9_NoFilenameInPartHeaders ==
    \A k \in Requests :
        net[k].method = "POST" =>
            /\ k = Len(net) => net[k].body = prep_rq.body
            /\ net[k].content_length = Len(net[k].body)
            /\ LET parts == Parts(decode(net[k].body))
               IN  /\ Len(parts) = Len(FieldOrder)
                   /\ \A n \in 1..Len(FieldOrder) :
                          /\ ~Contains(parts[n].headers, Chars("filename"))
                          /\ Contains(parts[n].headers,
                                      Chars("name=\"") \o Chars(FieldOrder[n])
                                          \o Chars("\""))

\* a body was sent whose content still reads filename="Z" after the part
\* headers lost their attributes
C9_Witness ==
    /\ Submitted
    /\ raw = Chars("filename=\"Z\"")
    /\ HasFilenameAttribute(decode(net[Len(net)].body))

\* C10 as claimed: every field's value in the body sent equals the value
\* placed in the form.
C10_ValuesUntouched ==
    \A k \in Requests :
        net[k].method = "POST" =>
            LET parts == Parts(decode(net[k].body))
            IN  \A n \in 1..Len(FieldOrder) :
                    parts[n].value = net[k].fields[FieldOrder[n]]

====
